---- MODULE Spec2Model ----
(***************************************************************************)
(* Model of the photo-branding service (MoonrakerAI/unique-photos).        *)
(*                                                                         *)
(* Two request handlers exist:                                             *)
(*   "process" : src/app.py  process_photos  (photos fetched from URLs,    *)
(*               results stored in the blob store)                         *)
(*   "upload"  : src/CascadeProjects/windsurf-project/app.py  upload       *)
(*               (photos uploaded, results stored in PROCESSED_FOLDER)     *)
(*                                                                         *)
(* Six specifications share the module:                                    *)
(*   Spec           the two request handlers, one step per loop iteration  *)
(*   SpecCompose    the geometry and opacity arithmetic of one composition *)
(*   SpecQR         the QR payload normalisation                           *)
(*   SpecOutput     the name and the encoding of one output                *)
(*   SpecCaption    the caption lines drawn on one photo                   *)
(*   SpecConcurrent two upload requests interleaved at their file          *)
(*                  operations                                             *)
(*                                                                         *)
(* Text is modelled as a sequence of one-character strings, so that        *)
(* splitext, secure_filename, split('?') and the substring tests are       *)
(* computed character by character as the code does.                       *)
(***************************************************************************)
EXTENDS Integers, Sequences, FiniteSets, TLC

VARIABLES req, processed, blob, uploads, cmp, qrp, out, cap, thr

vars == <<req, processed, blob, uploads, cmp, qrp, out, cap, thr>>

(***************************************************************************)
(* Bounds of the model                                                     *)
(***************************************************************************)
MaxReqs == 1

MaxPhotos == 2

(***************************************************************************)
(* Arithmetic helpers                                                      *)
(***************************************************************************)
Max(a, b) == IF a >= b THEN a ELSE b

Abs(a) == IF a >= 0 THEN a ELSE 0 - a

\* floor(n / d) and ceil(n / d) for n >= 0, d > 0
FloorDiv(n, d) == n \div d

CeilDiv(n, d) == (n + d - 1) \div d

\* int(n * f) for the float literal f = num/den and an integer n >= 0.
\* The double product n*0.15, n*0.02, n*0.3, p*0.5 truncates to the same
\* integer as the exact quotient for every n in 0..200000.
TruncMul(n, num, den) == (n * num) \div den

\* Python round(): nearest integer, ties to even, of the fraction n/d
RoundHalfEven(n, d) ==
    LET q == n \div d
        r == n % d
    IN  IF 2 * r < d THEN q
        ELSE IF 2 * r > d THEN q + 1
        ELSE IF q % 2 = 0 THEN q ELSE q + 1

(***************************************************************************)
(* Text helpers                                                            *)
(***************************************************************************)
Digits == <<"0", "1", "2", "3", "4", "5", "6", "7", "8", "9">>

LowerLetters ==
    {"a", "b", "c", "d", "e", "f", "g", "h", "i", "j", "k", "l", "m",
     "n", "o", "p", "q", "r", "s", "t", "u", "v", "w", "x", "y", "z"}

UpperLetters == {"A", "G", "J", "N", "P"}

DigitChars == {Digits[i] : i \in 1..10}

WhiteChars == {" "}

\* str.lower() on one character
LowerChar(c) ==
    CASE c = "A" -> "a"
      [] c = "G" -> "g"
      [] c = "J" -> "j"
      [] c = "N" -> "n"
      [] c = "P" -> "p"
      [] OTHER -> c

lower(s) == [i \in 1..Len(s) |-> LowerChar(s[i])]

\* str(n) for n >= 0
RECURSIVE str(_)
str(n) == IF n < 10 THEN <<Digits[n + 1]>>
          ELSE str(n \div 10) \o <<Digits[(n % 10) + 1]>>

\* s.rfind(c): the last 1-based position of c in s, 0 when absent
rfind(s, c) ==
    LET P == {i \in 1..Len(s) : s[i] = c}
    IN  IF P = {} THEN 0 ELSE CHOOSE i \in P : \A j \in P : j <= i

\* s.find(c): the first 1-based position of c in s, 0 when absent
find(s, c) ==
    LET P == {i \in 1..Len(s) : s[i] = c}
    IN  IF P = {} THEN 0 ELSE CHOOSE i \in P : \A j \in P : i <= j

\* pat in s
contains(s, pat) ==
    \E i \in 1..(Len(s) - Len(pat) + 1) : SubSeq(s, i, i + Len(pat) - 1) = pat

endswith(s, suf) ==
    /\ Len(s) >= Len(suf)
    /\ SubSeq(s, Len(s) - Len(suf) + 1, Len(s)) = suf

\* s.strip(): surrounding whitespace removed
RECURSIVE lstrip(_, _)
lstrip(s, chars) ==
    IF s # <<>> /\ s[1] \in chars THEN lstrip(Tail(s), chars) ELSE s

RECURSIVE rstrip(_, _)
rstrip(s, chars) ==
    IF s # <<>> /\ s[Len(s)] \in chars
    THEN rstrip(SubSeq(s, 1, Len(s) - 1), chars) ELSE s

strip(s, chars) == rstrip(lstrip(s, chars), chars)

\* s.split(): the maximal runs of non-whitespace characters
RECURSIVE split_words(_)
split_words(s) ==
    LET t == lstrip(s, WhiteChars)
    IN  IF t = <<>> THEN <<>>
        ELSE LET ws == {i \in 1..Len(t) : t[i] \in WhiteChars}
                 k  == IF ws = {} THEN Len(t)
                       ELSE (CHOOSE i \in ws : \A j \in ws : i <= j) - 1
             IN  <<SubSeq(t, 1, k)>> \o split_words(SubSeq(t, k + 1, Len(t)))

\* sep.join(words)
RECURSIVE join(_, _)
join(sep, words) ==
    IF words = <<>> THEN <<>>
    ELSE IF Len(words) = 1 THEN words[1]
    ELSE words[1] \o sep \o join(sep, Tail(words))

\* os.path.splitext(p): <<root, ext>>; the extension starts at the last dot
\* of the last path component unless that component has only leading dots
splitext(p) ==
    LET sepIndex == rfind(p, "/")
        dotIndex == rfind(p, ".")
    IN  IF /\ dotIndex > sepIndex
           /\ \E k \in (sepIndex + 1)..(dotIndex - 1) : p[k] # "."
        THEN <<SubSeq(p, 1, dotIndex - 1), SubSeq(p, dotIndex, Len(p))>>
        ELSE <<p, <<>> >>

\* werkzeug.utils.secure_filename on ASCII text: path separators become
\* spaces, whitespace runs become "_", characters outside [A-Za-z0-9_.-]
\* are dropped, leading and trailing "." and "_" are stripped
SafeChars == LowerLetters \cup UpperLetters \cup DigitChars \cup {"_", ".", "-"}

secure_filename(s) ==
    LET nosep  == [i \in 1..Len(s) |-> IF s[i] = "/" THEN " " ELSE s[i]]
        joined == join(<<"_">>, split_words(nosep))
        safe   == SelectSeq(joined, LAMBDA c : c \in SafeChars)
    IN  strip(safe, {".", "_"})

ALLOWED_EXTENSIONS ==
    { <<"p", "n", "g">>, <<"j", "p", "g">>, <<"j", "p", "e", "g">>,
      <<"g", "i", "f">> }

\* allowed_file(filename)
allowed_file(filename) ==
    /\ find(filename, ".") # 0
    /\ lower(SubSeq(filename, rfind(filename, ".") + 1, Len(filename)))
          \in ALLOWED_EXTENSIONS

(***************************************************************************)
(* Composition arithmetic (identical in both handlers)                     *)
(***************************************************************************)
Variants == {"process", "upload"}

target_element_height == 360

QR_BOX_SIZE == 10

QR_BORDER == 4

\* The specification's formula: max(round(0.15 * H), 120)
footer_height_round(H) == Max(RoundHalfEven(15 * H, 100), 120)

\* footer_height = max(int(img.height * 0.15), 120)
footer_height(H) == Max(TruncMul(H, 15, 100), 120)

\* new_size = (img.width, img.height + footer_height)
new_size(W, H) == <<W, H + footer_height(H)>>

\* The specification's formula: round(0.02 * W)
side_padding_round(W) == RoundHalfEven(2 * W, 100)

\* side_padding = int(img.width * 0.02)
side_padding(W) == TruncMul(W, 2, 100)

\* The logo's bounding box (int(img.width * 0.3), target_element_height)
logo_box(W) == <<TruncMul(W, 3, 10), target_element_height>>

\* The QR's bounding box (target_element_height, target_element_height)
qr_box == <<target_element_height, target_element_height>>

\* Side in pixels of the image qrcode makes for a given symbol version:
\* (17 + 4*version) modules plus the border on both sides, box_size pixels
\* per module
qr_side(version) == (17 + 4 * version + 2 * QR_BORDER) * QR_BOX_SIZE

\* Pillow's round_aspect: of floor and ceil of the ideal length, the one whose
\* aspect ratio is closer to the original's, at least 1.  kf and kc are the
\* two distances scaled to a common denominator; on an exact tie the float
\* comparison in Pillow goes either way, so the tie is an input.
round_aspect(fl, ce, kf, kc, tie) ==
    Max(IF kf < kc THEN fl
        ELSE IF kc < kf THEN ce
        ELSE IF tie = "floor" THEN fl ELSE ce, 1)

\* A plausible slip: the overlay is resized to the box itself
thumbnail_stretch(w, h, box, tie) == [ok |-> box[1] >= 1, w |-> box[1], h |-> box[2]]

\* Image.thumbnail(box, LANCZOS) on a w x h image: the size it is resized to.
\* Unchanged when the box contains the image; otherwise the largest size of
\* the same aspect ratio inside the box.  ok = FALSE when the resize raises
\* (a zero-width target).
thumbnail(w, h, box, tie) ==
    LET x == box[1]
        y == box[2]
    IN  IF x >= w /\ y >= h THEN [ok |-> TRUE, w |-> w, h |-> h]
        ELSE IF x * h >= w * y
        THEN \* x / y >= aspect: the height is kept, the width follows
             LET fl == FloorDiv(y * w, h)
                 ce == CeilDiv(y * w, h)
                 nx == round_aspect(fl, ce, Abs(w * y - fl * h),
                                    Abs(w * y - ce * h), tie)
             IN  [ok |-> TRUE, w |-> nx, h |-> y]
        ELSE \* the width is kept, the height follows
             LET fl == FloorDiv(x * h, w)
                 ce == CeilDiv(x * h, w)
                 kf == IF fl = 0 THEN 0 ELSE Abs(w * fl - x * h) * ce
                 kc == IF ce = 0 THEN 0
                       ELSE IF fl = 0 THEN 1
                       ELSE Abs(w * ce - x * h) * fl
                 ny == round_aspect(fl, ce, kf, kc, tie)
             IN  [ok |-> x >= 1, w |-> x, h |-> ny]

\* A plausible slip: the product is rounded up instead of truncated
half_opacity_ceil(p) == (p + 1) \div 2

\* lambda p: int(p * 0.5)
half_opacity(p) == TruncMul(p, 1, 2)

\* alpha.point(f): the 256-entry lookup table Pillow builds from f and
\* applies to every pixel of the alpha band
alpha_lut == [p \in 0..255 |-> half_opacity(p)]

\* An overlay as pasted: its scaled size, position and adjusted alpha table
NoOverlay == [present |-> FALSE, w |-> 0, h |-> 0, x |-> 0, y |-> 0, lut |-> <<>>]

\* The logo block: copy, thumbnail, halve alpha, paste at
\* (side_padding, side_padding); any exception leaves the photo without logo
compose_logo(W, logo, tie) ==
    IF logo = <<0, 0>> THEN NoOverlay
    ELSE LET t == thumbnail(logo[1], logo[2], logo_box(W), tie)
         IN  IF ~t.ok THEN NoOverlay
             ELSE [present |-> TRUE, w |-> t.w, h |-> t.h,
                   x |-> side_padding(W), y |-> side_padding(W),
                   lut |-> alpha_lut]

\* The QR block: copy, thumbnail, halve alpha, paste at
\* (img.width - qr.width - side_padding, side_padding)
compose_qr(W, qr, tie) ==
    IF qr = 0 THEN NoOverlay
    ELSE LET t == thumbnail(qr, qr, qr_box, tie)
         IN  IF ~t.ok THEN NoOverlay
             ELSE [present |-> TRUE, w |-> t.w, h |-> t.h,
                   x |-> W - t.w - side_padding(W), y |-> side_padding(W),
                   lut |-> alpha_lut]

(***************************************************************************)
(* SpecCompose: one composition, inputs drawn from the sets below          *)
(***************************************************************************)
Widths == {3, 4, 400, 1000, 1080, 1200, 4000}

Heights == {1, 100, 799, 800, 801, 806, 810, 1000, 2407}

\* <<0, 0>> stands for "no logo"
LogoSizes ==
    { <<0, 0>>, <<800, 200>>, <<200, 800>>, <<100, 50>>, <<184, 1920>>,
      <<2000, 2000>>, <<1, 1>>, <<5000, 10>>, <<359, 361>> }

\* 0 stands for "no QR"; otherwise the symbol version qrcode chose
QRVersions == {0, 1, 2, 5, 10}

Ties == {"floor", "ceil"}

CmpIdle ==
    [pc |-> "idle", variant |-> "process", W |-> 0, H |-> 0,
     logo_in |-> <<0, 0>>, qr_in |-> 0, footer_height |-> 0,
     canvas |-> <<0, 0>>, side_padding |-> 0,
     logo |-> NoOverlay, qr |-> NoOverlay]

\* src/app.py 297-355 and windsurf-project/app.py 223-285: one photo composed
Compose ==
    /\ cmp.pc = "idle"
    /\ \E v \in Variants, W \in Widths, H \in Heights, logo \in LogoSizes,
          qv \in QRVersions, tie \in Ties :
          LET qr == IF qv = 0 THEN 0 ELSE qr_side(qv)
          IN  cmp' = [pc |-> "done", variant |-> v, W |-> W, H |-> H,
                      logo_in |-> logo, qr_in |-> qr,
                      footer_height |-> footer_height(H),
                      canvas |-> new_size(W, H),
                      side_padding |-> side_padding(W),
                      logo |-> compose_logo(W, logo, tie),
                      qr |-> compose_qr(W, qr, tie)]
    /\ UNCHANGED <<req, processed, blob, uploads, qrp, out, cap, thr>>

\* The next photo of the batch is composed
ComposeNext ==
    /\ cmp.pc = "done"
    /\ cmp' = CmpIdle
    /\ UNCHANGED <<req, processed, blob, uploads, qrp, out, cap, thr>>

(***************************************************************************)
(* The request handlers: state                                             *)
(*                                                                         *)
(* req[r]    the handler invocation r: its inputs, locals and response     *)
(* processed the names of the files in PROCESSED_FOLDER (upload handler)   *)
(* blob      the names stored in the blob store (process handler)          *)
(* uploads   UPLOAD_FOLDER: file name -> what the file holds               *)
(***************************************************************************)
Reqs == 1..MaxReqs

TEMP_LOGO == <<"t", "e", "m", "p", "_", "l", "o", "g", "o", ".", "p", "n", "g">>

GENERATED_QR ==
    <<"g", "e", "n", "e", "r", "a", "t", "e", "d", "_", "q", "r", ".", "p", "n", "g">>

EXT_PNG == <<".", "p", "n", "g">>

EXT_JPG == <<".", "j", "p", "g">>

EXT_JPEG == <<".", "j", "p", "e", "g">>

EXT_GIF == <<".", "g", "i", "f">>

PHOTO_PREFIX == <<"p", "h", "o", "t", "o", "_">>

\* What an image source holds: whose it is, what it is, whether it decodes
NoSrc == [req |-> 0, kind |-> "none", valid |-> FALSE]

Src(r, kind, valid) == [req |-> r, kind |-> kind, valid |-> valid]

NoResponse == [status |-> "none", code |-> 0, files |-> <<>>]

ErrorResponse(code) == [status |-> "error", code |-> code, files |-> <<>>]

ReqIdle ==
    [pc |-> "idle", variant |-> "process", n |-> 0, i |-> 0,
     logo_in |-> "none", qr_in |-> "none", caption_raises |-> FALSE,
     names_given |-> FALSE, logo |-> NoSrc, qr |-> NoSrc,
     log |-> <<>>, results |-> <<>>, response |-> NoResponse]

ReqClosed == [ReqIdle EXCEPT !.pc = "closed"]

\* The inputs the environment may supply
LogoInputsProcess == {"none", "ok", "fetchfail", "corrupt"}

LogoInputsUpload == {"none", "ok", "corrupt", "badtype"}

QRInputs == {"none", "ok", "genfail"}

PhotoFaultsProcess == {"none", "fetch", "decode", "store"}

PhotoFaultsUpload == {"none", "decode", "store"}

\* file_names entries of the process handler; <<>> is a missing or empty entry
NameEntriesProcess == { <<>>, <<"a">>, <<"p", "h", "o", "t", "o", "_", "2">> }

\* file_names entries of the upload handler
NameEntriesUpload == { <<"a">>, <<"A", " ", "a", ".", "P", "N", "G">> }

\* photo.filename of the uploaded photos
PhotoFileNames == { <<"a", ".", "J", "P", "G">>, TEMP_LOGO }

(***************************************************************************)
(* The request handlers: the pieces of code the actions are made of        *)
(***************************************************************************)
\* A plausible slip: a logo that failed to load is still treated as loaded
load_logo_unchecked(r, logo_in) ==
    IF logo_in = "none" THEN NoSrc ELSE Src(r, "logo", TRUE)

\* src/app.py 261-268: logo_img stays None unless download and decode succeed
load_logo(r, logo_in) ==
    IF logo_in = "ok" THEN Src(r, "logo", TRUE) ELSE NoSrc

\* src/app.py 270-289: qr_img stays None unless the QR code was generated
make_qr(r, qr_in) ==
    IF qr_in = "ok" THEN Src(r, "qr", TRUE) ELSE NoSrc

\* A plausible slip: the response is a success whatever was processed
batch_response_always(results) ==
    [status |-> "success", code |-> 200,
     files |-> [k \in 1..Len(results) |-> results[k].name]]

\* src/app.py 396-402, windsurf-project/app.py 346-353
batch_response(results) ==
    IF results = <<>> THEN ErrorResponse(500)
    ELSE [status |-> "success", code |-> 200,
          files |-> [k \in 1..Len(results) |-> results[k].name]]

\* A plausible slip: the exception of one photo ends the batch
photo_failed_abort(rq, fault) ==
    [rq EXCEPT !.i = rq.n, !.results = <<>>,
               !.log = Append(@, [fault |-> fault])]

\* src/app.py 392-394, windsurf-project/app.py 336-338: the exception of one
\* photo is logged and the loop continues with the next photo
photo_failed(rq, fault) ==
    [rq EXCEPT !.i = @ + 1, !.log = Append(@, [fault |-> fault])]

\* processed_urls.append / processed_files.append at the end of an iteration
photo_done(rq, fault, name, enc, logo, qr) ==
    [rq EXCEPT !.i = @ + 1,
               !.log = Append(@, [fault |-> fault]),
               !.results = Append(@, [idx |-> rq.i, name |-> name,
                                      enc |-> enc,
                                      logo |-> logo, qr |-> qr])]

\* src/app.py 369-377: the output name of photo i (0-based)
output_name_process(entry, i) ==
    LET base_name == IF entry # <<>>
                     THEN secure_filename(splitext(entry)[1])
                     ELSE PHOTO_PREFIX \o str(i + 1)
    IN  base_name \o EXT_JPG

\* windsurf-project/app.py 300-302
original_ext(filename) ==
    LET e == lower(splitext(filename)[2])
    IN  IF e = <<>> \/ e \notin {EXT_PNG, EXT_JPG, EXT_JPEG, EXT_GIF}
        THEN EXT_PNG ELSE e

\* windsurf-project/app.py 314-318: the first base_k.ext that does not exist
RECURSIVE unique_from(_, _, _, _)
unique_from(base_name, ext, counter, dir) ==
    LET output_name == base_name \o <<"_">> \o str(counter) \o ext
    IN  IF output_name \in dir
        THEN unique_from(base_name, ext, counter + 1, dir)
        ELSE output_name

\* windsurf-project/app.py 306-318: the output name of a photo
output_name_upload(entry, filename, dir) ==
    LET base_name == secure_filename(splitext(entry)[1])
        ext       == original_ext(filename)
    IN  IF (base_name \o ext) \in dir
        THEN unique_from(base_name, ext, 1, dir)
        ELSE base_name \o ext

\* How an output is serialised: the codec, the pixel mode of the image handed
\* to it, and the quality argument (0 when none is passed)
ENC_PNG == [format |-> "PNG", mode |-> "RGBA", quality |-> 0]

ENC_JPEG == [format |-> "JPEG", mode |-> "RGB", quality |-> 95]

\* src/app.py 381-382: rgb_img = clean_img.convert('RGB');
\* rgb_img.save(output_buffer, 'JPEG', quality=95)
output_encoding_process(output_name) == ENC_JPEG

\* windsurf-project/app.py 324-328: PNG when the lowered output name ends in
\* '.png', otherwise converted to RGB and saved as JPEG at quality 95
output_encoding_upload(output_name) ==
    IF endswith(lower(output_name), EXT_PNG) THEN ENC_PNG ELSE ENC_JPEG

\* os.remove(path) / the file system after a file is written
RemoveFile(dir, name) == [f \in (DOMAIN dir) \ {name} |-> dir[f]]

WriteFile(dir, name, content) ==
    [f \in (DOMAIN dir) \cup {name} |-> IF f = name THEN content ELSE dir[f]]

\* What Image.open(path) yields for an overlay path of the upload handler:
\* the file's content when it exists and decodes, nothing otherwise
open_overlay(dir, path_set, name) ==
    IF path_set /\ name \in DOMAIN dir /\ dir[name].valid THEN dir[name] ELSE NoSrc

(***************************************************************************)
(* The process handler, src/app.py process_photos                          *)
(***************************************************************************)
\* Lines 246-291: the request is read, the logo fetched, the QR generated.
\* n = 0 stands for a request without data or without photo_urls.
ProcessBegin(r) ==
    /\ req[r].pc = "idle"
    /\ \E n \in 0..MaxPhotos, logo_in \in LogoInputsProcess,
          qr_in \in QRInputs, cr \in BOOLEAN :
          req' = [req EXCEPT ![r] =
                    IF n = 0
                    THEN [ReqIdle EXCEPT !.pc = "done",
                                         !.response = ErrorResponse(400)]
                    ELSE [ReqIdle EXCEPT !.pc = "loop", !.n = n,
                                         !.logo_in = logo_in,
                                         !.qr_in = qr_in,
                                         !.caption_raises = cr,
                                         !.logo = load_logo(r, logo_in),
                                         !.qr = make_qr(r, qr_in)]]
    /\ UNCHANGED <<processed, blob, uploads, cmp, qrp, out, cap, thr>>

\* Lines 293-394: one iteration of the loop over photo_urls.  The photo is
\* fetched and decoded, composed with the overlays the request loaded, the
\* caption is drawn, the result is encoded and stored; any exception skips
\* the photo.
ProcessPhoto(r) ==
    /\ req[r].pc = "loop"
    /\ req[r].variant = "process"
    /\ req[r].i < req[r].n
    /\ \E fault \in PhotoFaultsProcess, entry \in NameEntriesProcess :
          LET rq    == req[r]
              name  == output_name_process(entry, rq.i)
              fails == \/ fault \in {"fetch", "decode"}
                       \/ rq.caption_raises
                       \/ fault = "store"
          IN  /\ req' = [req EXCEPT ![r] =
                           IF fails THEN photo_failed(rq, fault)
                           ELSE photo_done(rq, fault, name,
                                           output_encoding_process(name),
                                           rq.logo, rq.qr)]
              /\ blob' = IF fails THEN blob ELSE blob \cup {name}
    /\ UNCHANGED <<processed, uploads, cmp, qrp, out, cap, thr>>

\* Lines 396-402: the response after the loop
ProcessFinish(r) ==
    /\ req[r].pc = "loop"
    /\ req[r].variant = "process"
    /\ req[r].i = req[r].n
    /\ req' = [req EXCEPT ![r].pc = "done",
                          ![r].response = batch_response(req[r].results)]
    /\ UNCHANGED <<processed, blob, uploads, cmp, qrp, out, cap, thr>>

(***************************************************************************)
(* The upload handler, src/CascadeProjects/windsurf-project/app.py upload  *)
(***************************************************************************)
\* Lines 132-212: the logo is saved as temp_logo.png, the QR is generated
\* and saved as generated_qr.png, the photos are validated.  n is the number
\* of valid photos.
UploadBegin(r) ==
    /\ req[r].pc = "idle"
    /\ \E n \in 0..MaxPhotos, logo_in \in LogoInputsUpload,
          qr_in \in QRInputs, cr \in BOOLEAN, ng \in BOOLEAN :
          LET has_logo == logo_in \in {"ok", "corrupt"}
              up1 == IF has_logo
                     THEN WriteFile(uploads, TEMP_LOGO,
                                    Src(r, "logo", logo_in = "ok"))
                     ELSE uploads
              up2 == IF qr_in = "ok"
                     THEN WriteFile(up1, GENERATED_QR, Src(r, "qr", TRUE))
                     ELSE up1
              early(code) == [ReqIdle EXCEPT !.pc = "done",
                                             !.variant = "upload",
                                             !.logo_in = logo_in,
                                             !.qr_in = qr_in,
                                             !.response = ErrorResponse(code)]
          IN  IF logo_in = "badtype"
              THEN \* line 138
                   /\ req' = [req EXCEPT ![r] =
                                [early(400) EXCEPT !.qr_in = "none"]]
                   /\ uploads' = uploads
              ELSE IF qr_in = "genfail"
              THEN \* lines 177-180: os.path.exists(None) raises, and the
                   \* outer handler answers 500
                   /\ req' = [req EXCEPT ![r] =
                                early(IF has_logo THEN 400 ELSE 500)]
                   /\ uploads' = RemoveFile(up1, TEMP_LOGO)
              ELSE IF n = 0
              THEN \* lines 183-202
                   /\ req' = [req EXCEPT ![r] = early(400)]
                   /\ uploads' = RemoveFile(RemoveFile(up2, TEMP_LOGO),
                                            GENERATED_QR)
              ELSE /\ req' = [req EXCEPT ![r] =
                                [ReqIdle EXCEPT
                                   !.pc = "loop", !.variant = "upload",
                                   !.n = n, !.logo_in = logo_in,
                                   !.qr_in = qr_in, !.caption_raises = cr,
                                   !.names_given = ng,
                                   !.logo = IF has_logo
                                            THEN Src(r, "path", TRUE)
                                            ELSE NoSrc,
                                   !.qr = IF qr_in = "ok"
                                          THEN Src(r, "path", TRUE)
                                          ELSE NoSrc]]
                   /\ uploads' = up2
    /\ UNCHANGED <<processed, blob, cmp, qrp, out, cap, thr>>

\* Lines 215-338: one iteration of the loop over valid_photos.  The upload is
\* saved under its secure file name, opened, composed with whatever the two
\* overlay paths hold at that moment, captioned, named, saved, and the
\* upload file is removed; any exception skips the photo.
UploadPhoto(r) ==
    /\ req[r].pc = "loop"
    /\ req[r].variant = "upload"
    /\ req[r].i < req[r].n
    /\ \E fault \in PhotoFaultsUpload, filename \in PhotoFileNames,
          given \in NameEntriesUpload :
          LET rq    == req[r]
              entry == IF rq.names_given THEN given
                       ELSE splitext(filename)[1]
              file  == secure_filename(filename)
              up1   == WriteFile(uploads, file,
                                 Src(r, "photo", fault # "decode"))
              logo  == open_overlay(up1, rq.logo.kind = "path", TEMP_LOGO)
              qr    == open_overlay(up1, rq.qr.kind = "path", GENERATED_QR)
              name  == output_name_upload(entry, filename, processed)
              fails == \/ fault = "decode"
                       \/ rq.caption_raises
                       \/ fault = "store"
          IN  /\ ~rq.names_given => given = <<"a">>
              /\ req' = [req EXCEPT ![r] =
                           IF fails THEN photo_failed(rq, fault)
                           ELSE photo_done(rq, fault, name,
                                           output_encoding_upload(name),
                                           logo, qr)]
              /\ processed' = IF fails THEN processed
                              ELSE processed \cup {name}
              /\ uploads' = IF fails THEN up1 ELSE RemoveFile(up1, file)
    /\ UNCHANGED <<blob, cmp, qrp, out, cap, thr>>

\* Lines 340-353: the overlay files are removed, the response is built
UploadFinish(r) ==
    /\ req[r].pc = "loop"
    /\ req[r].variant = "upload"
    /\ req[r].i = req[r].n
    /\ req' = [req EXCEPT ![r].pc = "done",
                          ![r].response = batch_response(req[r].results)]
    /\ uploads' =
         LET up1 == IF req[r].logo.kind = "path"
                    THEN RemoveFile(uploads, TEMP_LOGO) ELSE uploads
         IN  IF req[r].qr.kind = "path"
             THEN RemoveFile(up1, GENERATED_QR) ELSE up1
    /\ UNCHANGED <<processed, blob, cmp, qrp, out, cap, thr>>

\* The handler has returned; its locals are gone
Close(r) ==
    /\ req[r].pc = "done"
    /\ req' = [req EXCEPT ![r] = [ReqClosed EXCEPT !.variant = req[r].variant]]
    /\ UNCHANGED <<processed, blob, uploads, cmp, qrp, out, cap, thr>>

(***************************************************************************)
(* The QR payload                                                          *)
(***************************************************************************)
PAT_GOOGLE_MAPS == <<"g", "o", "o", "g", "l", "e", ".", "c", "o", "m", "/", "m", "a", "p", "s">>

PAT_MAPS_GOOGLE == <<"m", "a", "p", "s", ".", "g", "o", "o", "g", "l", "e", ".", "c", "o", "m">>

PAT_MAPS_APP == <<"m", "a", "p", "s", ".", "a", "p", "p", ".", "g", "o", "o", ".", "g", "l">>

MapsPatterns == {PAT_GOOGLE_MAPS, PAT_MAPS_GOOGLE, PAT_MAPS_APP}

\* A plausible slip: the query is cut from every URL
clean_maps_url_always(qr_url) ==
    IF find(qr_url, "?") # 0
    THEN SubSeq(qr_url, 1, find(qr_url, "?") - 1) ELSE qr_url

\* src/app.py 275-277, windsurf-project/app.py 154-156:
\* qr_url.split('?')[0] when a maps pattern occurs in qr_url
clean_maps_url(qr_url) ==
    LET is_google_maps == \E domain \in MapsPatterns : contains(qr_url, domain)
    IN  IF is_google_maps /\ find(qr_url, "?") # 0
        THEN SubSeq(qr_url, 1, find(qr_url, "?") - 1)
        ELSE qr_url

\* The value of qr_url when the QR block is entered: the JSON field as it is
\* (src/app.py 253), the form field stripped (windsurf-project/app.py 147)
read_qr_url(variant, raw) ==
    IF variant = "upload" THEN strip(raw, WhiteChars) ELSE raw

SCHEME == <<"h", "t", "t", "p", "s", ":", "/", "/">>

HostText ==
    [example |-> <<"e", "x", "a", "m", "p", "l", "e", ".", "c", "o", "m">>,
     google |-> <<"g", "o", "o", "g", "l", "e", ".", "c", "o", "m">>,
     wwwgoogle |-> <<"w", "w", "w", ".", "g", "o", "o", "g", "l", "e", ".", "c", "o", "m">>,
     mapsgoogle |-> <<"m", "a", "p", "s", ".", "g", "o", "o", "g", "l", "e", ".", "c", "o", "m">>,
     mapsapp |-> <<"m", "a", "p", "s", ".", "a", "p", "p", ".", "g", "o", "o", ".", "g", "l">>]

PathText ==
    [none |-> <<>>,
     maps |-> <<"/", "m", "a", "p", "s">>,
     place |-> <<"/", "m", "a", "p", "s", "/", "p", "l", "a", "c", "e", "/", "x">>,
     other |-> <<"/", "x">>]

QueryText ==
    [none |-> <<>>,
     cid |-> <<"?", "c", "i", "d", "=", "1", "2", "3", "&", "e", "x", "t", "r", "a", "=", "1">>,
     twice |-> <<"?", "a", "=", "1", "?", "b", "=", "2">>,
     empty |-> <<"?">>,
     embedded |-> <<"?", "u", "=", "m", "a", "p", "s", ".", "g", "o", "o", "g", "l", "e", ".", "c", "o", "m">>]

PadText == [none |-> <<>>, space |-> <<" ">>]

QrpIdle ==
    [pc |-> "idle", variant |-> "process", host |-> "example",
     path |-> "none", query |-> "none", pad |-> "none",
     qr_url |-> <<>>, made |-> FALSE, payload |-> <<>>]

\* src/app.py 272-287, windsurf-project/app.py 147-167: the string handed
\* to qr.add_data
GenerateQR ==
    /\ qrp.pc = "idle"
    /\ \E v \in Variants, host \in DOMAIN HostText, path \in DOMAIN PathText,
          query \in DOMAIN QueryText, pad \in DOMAIN PadText :
          LET raw    == PadText[pad] \o SCHEME \o HostText[host]
                          \o PathText[path] \o QueryText[query] \o PadText[pad]
              qr_url == read_qr_url(v, raw)
          IN  qrp' = [pc |-> "done", variant |-> v, host |-> host,
                      path |-> path, query |-> query, pad |-> pad,
                      qr_url |-> qr_url, made |-> qr_url # <<>>,
                      payload |-> clean_maps_url(qr_url)]
    /\ UNCHANGED <<req, processed, blob, uploads, cmp, out, cap, thr>>

\* The next request
GenerateQRNext ==
    /\ qrp.pc = "done"
    /\ qrp' = QrpIdle
    /\ UNCHANGED <<req, processed, blob, uploads, cmp, out, cap, thr>>

(***************************************************************************)
(* The output of one photo: its name and its encoding                      *)
(***************************************************************************)
\* photo.filename of an uploaded photo that passed allowed_file
OutputFileNames ==
    { <<"a", ".", "J", "P", "G">>, <<"a", ".", "j", "p", "e", "g">>,
      <<"a", ".", "p", "n", "g">>, <<"a", ".", "P", "N", "G">>,
      <<"a", ".", "g", "i", "f">>, <<"a", ".", "b", ".", "P", "N", "G">>,
      TEMP_LOGO }

\* Names that may already exist in the destination
ExistingNames ==
    { <<"a", ".", "j", "p", "g">>, <<"a", ".", "p", "n", "g">>,
      <<"a", ".", "g", "i", "f">>, <<"a", "_", "1", ".", "g", "i", "f">> }

OutIdle ==
    [pc |-> "idle", variant |-> "process", filename |-> <<>>,
     entry |-> <<>>, dir |-> {}, name |-> <<>>, enc |-> ENC_JPEG]

\* src/app.py 369-386: the output of photo i is named and encoded
NameAndEncodeProcess ==
    /\ out.pc = "idle"
    /\ \E entry \in NameEntriesProcess, i \in 0..(MaxPhotos - 1),
          dir \in SUBSET ExistingNames :
          LET name == output_name_process(entry, i)
          IN  out' = [pc |-> "done", variant |-> "process",
                      filename |-> <<>>, entry |-> entry, dir |-> dir,
                      name |-> name,
                      enc |-> output_encoding_process(name)]
    /\ UNCHANGED <<req, processed, blob, uploads, cmp, qrp, cap, thr>>

\* windsurf-project/app.py 299-328: the output of a photo is named and
\* encoded; entry is its file_names entry
NameAndEncodeUpload ==
    /\ out.pc = "idle"
    /\ \E filename \in OutputFileNames, given \in BOOLEAN,
          e \in NameEntriesUpload, dir \in SUBSET ExistingNames :
          LET entry == IF given THEN e ELSE splitext(filename)[1]
              name  == output_name_upload(entry, filename, dir)
          IN  /\ ~given => e = <<"a">>
              /\ out' = [pc |-> "done", variant |-> "upload",
                         filename |-> filename, entry |-> entry,
                         dir |-> dir, name |-> name,
                         enc |-> output_encoding_upload(name)]
    /\ UNCHANGED <<req, processed, blob, uploads, cmp, qrp, cap, thr>>

\* The next photo
NameAndEncodeNext ==
    /\ out.pc = "done"
    /\ out' = OutIdle
    /\ UNCHANGED <<req, processed, blob, uploads, cmp, qrp, cap, thr>>

(***************************************************************************)
(* The caption of one photo                                                *)
(***************************************************************************)
\* src/app.py 254-255, windsurf-project/app.py 148-149:
\* data.get('practice_name', '').strip()
read_caption_field(raw) == strip(raw, WhiteChars)

\* A plausible slip: both fields become lines whether they are empty or not
branding_lines_all(practice_name, plus_code) == <<practice_name, plus_code>>

\* src/app.py 358-362, windsurf-project/app.py 287-291
branding_lines(practice_name, plus_code) ==
    (IF practice_name # <<>> THEN <<practice_name>> ELSE <<>>)
        \o (IF plus_code # <<>> THEN <<plus_code>> ELSE <<>>)

\* src/app.py 365: max(int(footer_height * 0.18), 24);
\* windsurf-project/app.py 295: max(int(footer_height * 0.2), 16)
font_size_base(variant, fh) ==
    IF variant = "process" THEN Max(TruncMul(fh, 18, 100), 24)
    ELSE Max(TruncMul(fh, 2, 10), 16)

\* The size of font_sub: int(font_size_base * 0.9) in src/app.py 109,
\* int(font_size_base * 0.8) in windsurf-project/app.py 99
font_sub_size(variant, base) ==
    IF variant = "process" THEN TruncMul(base, 9, 10) ELSE TruncMul(base, 8, 10)

\* draw_footer_text: nothing when lines is empty; otherwise one draw.text
\* call per line, in order, the first in font_main and the others in
\* font_sub, all filled (0, 0, 0, 255)
draw_footer_text(variant, lines, base) ==
    IF lines = <<>> THEN <<>>
    ELSE [k \in 1..Len(lines) |->
            [text |-> lines[k],
             size |-> IF k = 1 THEN base ELSE font_sub_size(variant, base),
             fill |-> <<0, 0, 0, 255>>]]

\* The form or JSON values of practice_name and plus_code
CaptionTexts ==
    { <<>>, <<" ">>, <<"A", " ", "b">>, <<" ", "A", " ", "b", " ", " ">>,
      <<"4", "W", "9">> }

CapIdle ==
    [pc |-> "idle", variant |-> "process", H |-> 0,
     practice_raw |-> <<>>, plus_raw |-> <<>>,
     branding_lines |-> <<>>, drawn |-> <<>>]

\* src/app.py 254-255 and 357-367, windsurf-project/app.py 148-149 and
\* 287-297: the caption lines of the request are drawn on one photo
DrawCaption ==
    /\ cap.pc = "idle"
    /\ \E v \in Variants, H \in Heights, pr \in CaptionTexts,
          cr \in CaptionTexts :
          LET practice_name == read_caption_field(pr)
              plus_code     == read_caption_field(cr)
              lines         == branding_lines(practice_name, plus_code)
              base          == font_size_base(v, footer_height(H))
          IN  cap' = [pc |-> "done", variant |-> v, H |-> H,
                      practice_raw |-> pr, plus_raw |-> cr,
                      branding_lines |-> lines,
                      drawn |-> IF lines # <<>>
                                THEN draw_footer_text(v, lines, base)
                                ELSE <<>>]
    /\ UNCHANGED <<req, processed, blob, uploads, cmp, qrp, out, thr>>

\* The next photo
DrawCaptionNext ==
    /\ cap.pc = "done"
    /\ cap' = CapIdle
    /\ UNCHANGED <<req, processed, blob, uploads, cmp, qrp, out, thr>>

(***************************************************************************)
(* Two upload requests served at the same time                             *)
(*                                                                         *)
(* The development server answers each request in a thread of its own.     *)
(* The handler is split at its file operations; every step below is one    *)
(* of them.  Each request has one photo; all files are valid images.       *)
(***************************************************************************)
Threads == {1, 2}

ThrIdle ==
    [pc |-> "idle", has_logo |-> FALSE, has_qr |-> FALSE, filename |-> <<>>,
     logo |-> FALSE, qr_code |-> FALSE,
     img |-> NoSrc, logo_img |-> NoSrc, qr_img |-> NoSrc, results |-> <<>>]

\* The request arrives with its form data and files
Arrive(t) ==
    /\ thr[t].pc = "idle"
    /\ \E has_logo \in BOOLEAN, has_qr \in BOOLEAN,
          filename \in PhotoFileNames :
          thr' = [thr EXCEPT ![t] =
                    [ThrIdle EXCEPT !.pc = "save_logo",
                                    !.has_logo = has_logo,
                                    !.has_qr = has_qr,
                                    !.filename = filename]]
    /\ UNCHANGED <<req, processed, blob, uploads, cmp, qrp, out, cap>>

\* Lines 134-143: logo_file.save(logo_path); logo = logo_path
SaveLogo(t) ==
    /\ thr[t].pc = "save_logo"
    /\ uploads' = IF thr[t].has_logo
                  THEN WriteFile(uploads, TEMP_LOGO, Src(t, "logo", TRUE))
                  ELSE uploads
    /\ thr' = [thr EXCEPT ![t].pc = "save_qr", ![t].logo = thr[t].has_logo]
    /\ UNCHANGED <<req, processed, blob, cmp, qrp, out, cap>>

\* Lines 152-175: qr_img.save(qr_path); qr_code = qr_path
SaveQR(t) ==
    /\ thr[t].pc = "save_qr"
    /\ uploads' = IF thr[t].has_qr
                  THEN WriteFile(uploads, GENERATED_QR, Src(t, "qr", TRUE))
                  ELSE uploads
    /\ thr' = [thr EXCEPT ![t].pc = "save_photo", ![t].qr_code = thr[t].has_qr]
    /\ UNCHANGED <<req, processed, blob, cmp, qrp, out, cap>>

\* Lines 218-220: photo.save(file_path)
SavePhoto(t) ==
    /\ thr[t].pc = "save_photo"
    /\ uploads' = WriteFile(uploads, secure_filename(thr[t].filename),
                            Src(t, "photo", TRUE))
    /\ thr' = [thr EXCEPT ![t].pc = "open_photo"]
    /\ UNCHANGED <<req, processed, blob, cmp, qrp, out, cap>>

\* Lines 223-226: Image.open(file_path) and the conversion that reads the
\* pixels; a missing file raises and the photo is skipped
OpenPhoto(t) ==
    /\ thr[t].pc = "open_photo"
    /\ LET file == secure_filename(thr[t].filename)
       IN  thr' = [thr EXCEPT ![t] =
                     IF file \in DOMAIN uploads /\ uploads[file].valid
                     THEN [@ EXCEPT !.pc = "open_logo", !.img = uploads[file]]
                     ELSE [@ EXCEPT !.pc = "cleanup"]]
    /\ UNCHANGED <<req, processed, blob, uploads, cmp, qrp, out, cap>>

\* Lines 251-266: the logo is opened from its path and pasted
OpenLogo(t) ==
    /\ thr[t].pc = "open_logo"
    /\ thr' = [thr EXCEPT ![t].pc = "open_qr",
                          ![t].logo_img =
                              open_overlay(uploads, thr[t].logo, TEMP_LOGO)]
    /\ UNCHANGED <<req, processed, blob, uploads, cmp, qrp, out, cap>>

\* Lines 269-285: the QR is opened from its path and pasted
OpenQR(t) ==
    /\ thr[t].pc = "open_qr"
    /\ thr' = [thr EXCEPT ![t].pc = "save_output",
                          ![t].qr_img =
                              open_overlay(uploads, thr[t].qr_code, GENERATED_QR)]
    /\ UNCHANGED <<req, processed, blob, uploads, cmp, qrp, out, cap>>

\* Lines 299-334: the output is named, saved and listed, and the uploaded
\* file removed (a failing os.remove is caught at 336 after the output was
\* listed)
SaveOutput(t) ==
    /\ thr[t].pc = "save_output"
    /\ LET name == output_name_upload(splitext(thr[t].filename)[1],
                                      thr[t].filename, processed)
       IN  /\ processed' = processed \cup {name}
           /\ thr' = [thr EXCEPT ![t].pc = "cleanup",
                                 ![t].results =
                                     <<[name |-> name, photo |-> thr[t].img,
                                        logo |-> thr[t].logo_img,
                                        qr |-> thr[t].qr_img]>>]
    /\ uploads' = RemoveFile(uploads, secure_filename(thr[t].filename))
    /\ UNCHANGED <<req, blob, cmp, qrp, out, cap>>

\* Lines 340-353: the overlay files are removed and the response returned
CleanUp(t) ==
    /\ thr[t].pc = "cleanup"
    /\ uploads' =
         LET up1 == IF thr[t].logo THEN RemoveFile(uploads, TEMP_LOGO)
                    ELSE uploads
         IN  IF thr[t].qr_code THEN RemoveFile(up1, GENERATED_QR) ELSE up1
    /\ thr' = [thr EXCEPT ![t].pc = "done"]
    /\ UNCHANGED <<req, processed, blob, cmp, qrp, out, cap>>

(***************************************************************************)
(* Specifications                                                          *)
(***************************************************************************)
Init ==
    /\ req = [r \in Reqs |-> ReqIdle]
    /\ processed = {}
    /\ blob = {}
    /\ uploads = <<>>
    /\ cmp = CmpIdle
    /\ qrp = QrpIdle
    /\ out = OutIdle
    /\ cap = CapIdle
    /\ thr = [t \in Threads |-> ThrIdle]

\* Requests are served one at a time, in order
Sequential(r) ==
    /\ \A q \in Reqs : q < r => req[q].pc = "closed"
    /\ \A q \in Reqs : q > r => req[q].pc = "idle"

\* The two handlers belong to two applications, each a Flask app of its own
\* with its own storage; the requests of one run all go to the same one
SameApplication(r, variant) ==
    \A q \in Reqs : q < r => req[q].variant = variant

Next ==
    \/ \E r \in Reqs : Sequential(r) /\ SameApplication(r, "process")
                           /\ ProcessBegin(r)
    \/ \E r \in Reqs : Sequential(r) /\ ProcessPhoto(r)
    \/ \E r \in Reqs : Sequential(r) /\ ProcessFinish(r)
    \/ \E r \in Reqs : Sequential(r) /\ SameApplication(r, "upload")
                           /\ UploadBegin(r)
    \/ \E r \in Reqs : Sequential(r) /\ UploadPhoto(r)
    \/ \E r \in Reqs : Sequential(r) /\ UploadFinish(r)
    \/ \E r \in Reqs : Sequential(r) /\ Close(r)

Spec == Init /\ [][Next]_vars

NextCompose == Compose \/ ComposeNext

SpecCompose == Init /\ [][NextCompose]_vars

NextQR == GenerateQR \/ GenerateQRNext

SpecQR == Init /\ [][NextQR]_vars

NextOutput == NameAndEncodeProcess \/ NameAndEncodeUpload \/ NameAndEncodeNext

SpecOutput == Init /\ [][NextOutput]_vars

NextConcurrent ==
    \/ \E t \in Threads : Arrive(t)
    \/ \E t \in Threads : SaveLogo(t)
    \/ \E t \in Threads : SaveQR(t)
    \/ \E t \in Threads : SavePhoto(t)
    \/ \E t \in Threads : OpenPhoto(t)
    \/ \E t \in Threads : OpenLogo(t)
    \/ \E t \in Threads : OpenQR(t)
    \/ \E t \in Threads : SaveOutput(t)
    \/ \E t \in Threads : CleanUp(t)

SpecConcurrent == Init /\ [][NextConcurrent]_vars

NextCaption == DrawCaption \/ DrawCaptionNext

SpecCaption == Init /\ [][NextCaption]_vars

(***************************************************************************)
(* Properties of one composition (SpecCompose)                             *)
(***************************************************************************)
\* C1 as stated: footer_height = max(round(0.15 * H), 120) and the canvas is
\* (W, H + footer_height).
C1_FooterRounded ==
    cmp.pc = "done" =>
        /\ cmp.footer_height = Max(RoundHalfEven(15 * cmp.H, 100), 120)
        /\ cmp.canvas = <<cmp.W, cmp.H + cmp.footer_height>>

\* C1 as amended: footer_height is 0.15 * H truncated to an integer, and at
\* least 120: the largest integer f with f <= max(0.15 * H, 120); the canvas
\* is (W, H + footer_height).
C1_FooterTruncated ==
    cmp.pc = "done" =>
        LET f == cmp.footer_height
        IN  /\ f >= 120
            /\ 100 * f <= Max(15 * cmp.H, 12000)
            /\ 100 * (f + 1) > Max(15 * cmp.H, 12000)
            /\ cmp.canvas = <<cmp.W, cmp.H + f>>

\* A 1000 x 806 photo: 0.15 * 806 = 120.9 is truncated to 120
C1_Witness ==
    /\ cmp.pc = "done"
    /\ cmp.H = 806
    /\ cmp.footer_height = 120
    /\ cmp.canvas = <<1000, 926>>

\* C9 as stated: every adjusted alpha is at most half of the alpha before,
\* and exactly half of full opacity where the alpha before was 255.
C9_AlphaExactHalf ==
    \A ov \in {cmp.logo, cmp.qr} :
        ov.present =>
            \A a \in 0..255 :
                /\ 2 * ov.lut[a] <= a
                /\ a = 255 => 2 * ov.lut[a] = 255

\* C9 as amended: every adjusted alpha is half of the alpha before rounded
\* down, so at most half of it and less than one level below; a fully opaque
\* pixel (255) gets 127.
C9_AlphaTruncatedHalf ==
    \A ov \in {cmp.logo, cmp.qr} :
        ov.present =>
            /\ DOMAIN ov.lut = 0..255
            /\ \A a \in 0..255 :
                  /\ 2 * ov.lut[a] <= a
                  /\ a < 2 * ov.lut[a] + 2
            /\ ov.lut[255] = 127

\* Both overlays were pasted with their alpha adjusted
C9_Witness ==
    /\ cmp.pc = "done"
    /\ cmp.logo.present
    /\ cmp.qr.present
    /\ cmp.logo.lut[255] = 127
    /\ cmp.qr.lut[128] = 64

\* C10: a scaled overlay is never larger than the original in either
\* dimension; the logo is at most 360 high and 0.3 * W wide, the QR at most
\* 360 wide and high.
C10_OverlayFits ==
    cmp.pc = "done" =>
        /\ cmp.logo.present =>
              /\ cmp.logo.w >= 1 /\ cmp.logo.h >= 1
              /\ cmp.logo.w <= cmp.logo_in[1]
              /\ cmp.logo.h <= cmp.logo_in[2]
              /\ cmp.logo.h <= 360
              /\ 10 * cmp.logo.w <= 3 * cmp.W
        /\ cmp.qr.present =>
              /\ cmp.qr.w >= 1 /\ cmp.qr.h >= 1
              /\ cmp.qr.w <= cmp.qr_in
              /\ cmp.qr.h <= cmp.qr_in
              /\ cmp.qr.w <= 360
              /\ cmp.qr.h <= 360

\* An 800 x 200 logo on a 1000 wide photo is scaled to 300 x 75, a 450 pixel
\* QR to 360 x 360
C10_Witness ==
    /\ cmp.pc = "done"
    /\ cmp.W = 1000
    /\ cmp.logo_in = <<800, 200>>
    /\ cmp.logo.present /\ cmp.logo.w = 300 /\ cmp.logo.h = 75
    /\ cmp.qr_in = 450
    /\ cmp.qr.present /\ cmp.qr.w = 360 /\ cmp.qr.h = 360

\* Where the two overlays of a composition were pasted, given the padding
OverlaysAnchored ==
    /\ cmp.logo.present =>
          /\ cmp.logo.x = cmp.side_padding
          /\ cmp.logo.y = cmp.side_padding
    /\ cmp.qr.present =>
          /\ cmp.qr.x = cmp.W - cmp.qr.w - cmp.side_padding
          /\ cmp.qr.y = cmp.side_padding

\* C12 as stated: side_padding = round(0.02 * W); the logo is pasted at
\* (side_padding, side_padding) and the QR at x = W - qr_width - side_padding,
\* y = side_padding, qr_width being the width of the scaled QR.
C12_PaddingRounded ==
    cmp.pc = "done" =>
        /\ cmp.side_padding = RoundHalfEven(2 * cmp.W, 100)
        /\ OverlaysAnchored

\* C12 as amended: side_padding is 0.02 * W truncated to an integer (the
\* largest integer p with p <= 0.02 * W); the logo is pasted at
\* (side_padding, side_padding) and the QR at x = W - qr_width - side_padding,
\* y = side_padding, qr_width being the width of the scaled QR.
C12_PaddingTruncated ==
    cmp.pc = "done" =>
        /\ 100 * cmp.side_padding <= 2 * cmp.W
        /\ 100 * (cmp.side_padding + 1) > 2 * cmp.W
        /\ OverlaysAnchored

\* A 1080 wide photo: 0.02 * 1080 = 21.6 is truncated to 21; the logo is at
\* (21, 21) and the 360 wide QR at (699, 21)
C12_Witness ==
    /\ cmp.pc = "done"
    /\ cmp.W = 1080
    /\ cmp.side_padding = 21
    /\ cmp.logo.present /\ cmp.logo.x = 21 /\ cmp.logo.y = 21
    /\ cmp.qr.present /\ cmp.qr.w = 360 /\ cmp.qr.x = 699 /\ cmp.qr.y = 21

\* C17: the pasted logo and QR lie inside the photo area of the canvas and
\* do not overlap: the QR's x is not negative, the logo ends left of the QR,
\* and neither overlay reaches below the photo into the footer band.
C17_OverlaysInsidePhoto ==
    cmp.pc = "done" =>
        /\ cmp.qr.present =>
              /\ cmp.qr.x >= 0
              /\ cmp.qr.x + cmp.qr.w <= cmp.W
              /\ cmp.qr.y + cmp.qr.h <= cmp.H
        /\ cmp.logo.present =>
              /\ cmp.logo.x + cmp.logo.w <= cmp.W
              /\ cmp.logo.y + cmp.logo.h <= cmp.H
        /\ (cmp.logo.present /\ cmp.qr.present) =>
              cmp.logo.x + cmp.logo.w <= cmp.qr.x

(***************************************************************************)
(* Properties of the QR payload (SpecQR)                                   *)
(***************************************************************************)
\* Whether the URL built from the given parts holds one of the three maps
\* patterns
IsMapsLink(q) ==
    \/ q.host \in {"mapsgoogle", "mapsapp"}
    \/ q.host \in {"google", "wwwgoogle"} /\ q.path \in {"maps", "place"}
    \/ q.query = "embedded"

Chars(s) == {s[i] : i \in 1..Len(s)}

\* C7: the string encoded into the QR is the supplied URL (the JSON field
\* as it is, the form field without its surrounding whitespace) cut before
\* its first '?' when the URL holds a maps pattern, and the supplied URL
\* unchanged otherwise.
C7_QRPayload ==
    (qrp.pc = "done" /\ qrp.made) =>
        LET core == SCHEME \o HostText[qrp.host] \o PathText[qrp.path]
                       \o QueryText[qrp.query]
            u    == IF qrp.variant = "upload" THEN core
                    ELSE PadText[qrp.pad] \o core \o PadText[qrp.pad]
            p    == qrp.payload
        IN  IF IsMapsLink(qrp)
            THEN /\ Len(p) <= Len(u)
                 /\ p = SubSeq(u, 1, Len(p))
                 /\ "?" \notin Chars(p)
                 /\ Len(p) < Len(u) => u[Len(p) + 1] = "?"
            ELSE p = u

\* https://maps.google.com/maps?cid=123&extra=1 is encoded as
\* https://maps.google.com/maps
C7_Witness ==
    /\ qrp.pc = "done"
    /\ qrp.made
    /\ qrp.host = "mapsgoogle" /\ qrp.path = "maps" /\ qrp.query = "cid"
    /\ qrp.pad = "none"
    /\ qrp.payload = SCHEME \o PAT_MAPS_GOOGLE \o <<"/", "m", "a", "p", "s">>

(***************************************************************************)
(* Properties of the output name and encoding (SpecOutput)                 *)
(***************************************************************************)
\* The codec a file name announces by its extension
FormatOfName(name) ==
    LET n == lower(name)
    IN  IF endswith(n, EXT_PNG) THEN "PNG"
        ELSE IF endswith(n, EXT_GIF) THEN "GIF"
        ELSE IF endswith(n, EXT_JPG) \/ endswith(n, EXT_JPEG) THEN "JPEG"
        ELSE "unknown"

\* C11: the encoding of an output agrees with its name: a name with a
\* lossless extension (.png, .gif) is encoded in that lossless format, every
\* other name is an opaque RGB image encoded as JPEG at quality 95, and the
\* codec is always the one the extension of the name announces.
C11_EncodingAgrees ==
    out.pc = "done" =>
        /\ FormatOfName(out.name) \in {"PNG", "GIF"}
              => out.enc.format \in {"PNG", "GIF"}
        /\ FormatOfName(out.name) \notin {"PNG", "GIF"} => out.enc = ENC_JPEG
        /\ out.enc.format = FormatOfName(out.name)

(***************************************************************************)
(* Properties of the caption (SpecCaption)                                 *)
(***************************************************************************)
\* t is raw without its leading and trailing whitespace
IsTrimOf(t, raw) ==
    \E a \in 0..Len(raw) :
        /\ a + Len(t) <= Len(raw)
        /\ t = SubSeq(raw, a + 1, a + Len(t))
        /\ \A k \in 1..a : raw[k] \in WhiteChars
        /\ \A k \in (a + Len(t) + 1)..Len(raw) : raw[k] \in WhiteChars
        /\ t # <<>> => (t[1] \notin WhiteChars /\ t[Len(t)] \notin WhiteChars)

\* The field is not empty after trimming
Supplied(raw) == \E k \in 1..Len(raw) : raw[k] \notin WhiteChars

\* C13: text is drawn exactly when practice name or location code is not
\* empty after trimming; the lines drawn are the trimmed non-empty ones,
\* practice name before location code, and nothing else.
C13_CaptionLines ==
    cap.pc = "done" =>
        LET sp == Supplied(cap.practice_raw)
            sc == Supplied(cap.plus_raw)
            n  == (IF sp THEN 1 ELSE 0) + (IF sc THEN 1 ELSE 0)
        IN  /\ Len(cap.drawn) = n
            /\ (cap.drawn # <<>>) <=> (sp \/ sc)
            /\ sp => IsTrimOf(cap.drawn[1].text, cap.practice_raw)
            /\ sc => IsTrimOf(cap.drawn[n].text, cap.plus_raw)

\* Practice name " A b  " and location code "4W9" are drawn as "A b", "4W9";
\* the lines are the first and the last of the two
C13_Witness ==
    /\ cap.pc = "done"
    /\ cap.practice_raw = <<" ", "A", " ", "b", " ", " ">>
    /\ cap.plus_raw = <<"4", "W", "9">>
    /\ Len(cap.drawn) = 2
    /\ cap.drawn[1].text = <<"A", " ", "b">>
    /\ cap.drawn[2].text = <<"4", "W", "9">>

(***************************************************************************)
(* Properties of the request handlers (Spec)                               *)
(***************************************************************************)
\* The indices (0-based) of the photos in the results of request r
ResultIdx(r) == {req[r].results[k].idx : k \in 1..Len(req[r].results)}

\* Photo k (1-based) of request r failed: one of its own steps did, or the
\* caption could not be drawn on it
PhotoFailed(r, k) == req[r].log[k].fault # "none" \/ req[r].caption_raises

\* The batch loop of request r was entered and ran over all its photos
BatchDone(r) ==
    /\ req[r].pc = "done"
    /\ req[r].n >= 1
    /\ Len(req[r].log) = req[r].n

\* The destination of the outputs of request r
Destination(r) == IF req[r].variant = "process" THEN blob ELSE processed

\* C2: two photos processed in one batch never get the same output name.
C2_DistinctNames ==
    \A r \in Reqs :
        \A j, k \in 1..Len(req[r].results) :
            j # k => req[r].results[j].name # req[r].results[k].name

\* C3: when exactly one photo of a batch cannot be decoded and nothing else
\* fails, the response is a success with one entry for each of the other
\* photos, in order; each of them was processed and stored.
C3_OneCorruptPhoto ==
    \A r \in Reqs :
        ( /\ BatchDone(r)
          /\ req[r].n >= 2
          /\ ~req[r].caption_raises
          /\ Cardinality({k \in 1..req[r].n : req[r].log[k].fault = "decode"}) = 1
          /\ \A k \in 1..req[r].n : req[r].log[k].fault \in {"decode", "none"} )
        =>
        /\ req[r].response.status = "success"
        /\ Len(req[r].response.files) = req[r].n - 1
        /\ Len(req[r].results) = req[r].n - 1
        /\ ResultIdx(r) = {k - 1 : k \in {j \in 1..req[r].n : req[r].log[j].fault = "none"}}
        /\ \A k \in 1..Len(req[r].results) :
              /\ req[r].response.files[k] = req[r].results[k].name
              /\ req[r].results[k].name \in Destination(r)
              /\ \A j \in 1..(k - 1) : req[r].results[j].idx < req[r].results[k].idx

\* An uploaded batch whose first photo is corrupt and whose second is fine
C3_Witness ==
    \E r \in Reqs :
        /\ req[r].pc = "done"
        /\ req[r].variant = "upload"
        /\ req[r].n = 2
        /\ ~req[r].caption_raises
        /\ Len(req[r].log) = 2
        /\ req[r].log[1].fault = "decode"
        /\ req[r].log[2].fault = "none"
        /\ req[r].response.status = "success"
        /\ Len(req[r].response.files) = 1

C5_OptionalNeverFatal ==
    \A r \in Reqs :
        /\ \A k \in 1..Len(req[r].log) :
              req[r].log[k].fault = "none" => (k - 1) \in ResultIdx(r)
        /\ (req[r].pc = "done" /\ req[r].qr_in = "genfail")
              => Len(req[r].log) >= 1

\* C6 as stated: a photo that cannot be fetched makes the batch fail, while
\* a logo that cannot be fetched does not.
C6_PhotoFetchFatal ==
    \A r \in Reqs :
        (BatchDone(r) /\ req[r].variant = "process") =>
            /\ (\E k \in 1..req[r].n : req[r].log[k].fault = "fetch")
                  => req[r].response.status = "error"
            /\ (req[r].logo_in = "fetchfail"
                  /\ \E k \in 1..req[r].n : ~PhotoFailed(r, k))
                  => req[r].response.status = "success"

\* C6 as amended: a photo that cannot be fetched is skipped and the other
\* photos are processed as usual, so the batch fails only when no photo at
\* all was processed; a logo that cannot be fetched does not fail anything,
\* the photos are composed without a logo.
C6_FetchFailureSkips ==
    \A r \in Reqs :
        (BatchDone(r) /\ req[r].variant = "process") =>
            /\ \A k \in 1..req[r].n :
                  req[r].log[k].fault = "fetch" => (k - 1) \notin ResultIdx(r)
            /\ \A k \in 1..req[r].n :
                  ~PhotoFailed(r, k) => (k - 1) \in ResultIdx(r)
            /\ req[r].response.status = "error" <=> req[r].results = <<>>
            /\ req[r].logo_in = "fetchfail" =>
                  /\ \A k \in 1..Len(req[r].results) :
                        req[r].results[k].logo = NoSrc
                  /\ (\E k \in 1..req[r].n : ~PhotoFailed(r, k))
                        => req[r].response.status = "success"

\* The logo and the first photo could not be fetched, the second photo was
\* processed, without logo, and the response is a success
C6_Witness ==
    \E r \in Reqs :
        /\ BatchDone(r)
        /\ req[r].variant = "process"
        /\ req[r].logo_in = "fetchfail"
        /\ req[r].n = 2
        /\ req[r].log[1].fault = "fetch"
        /\ req[r].log[2].fault = "none"
        /\ req[r].response.status = "success"
        /\ Len(req[r].results) = 1
        /\ req[r].results[1].logo = NoSrc

\* C8: the output name chosen for a photo is never the name of a file that
\* is already in the destination.
C8_FreshName ==
    [][\A r \in Reqs :
          Len(req'[r].results) > Len(req[r].results) =>
              req'[r].results[Len(req'[r].results)].name \notin Destination(r)]_vars

\* C14: once an upload request has returned, whatever its exit path, the
\* upload folder holds no file that the request created: no saved photo,
\* no temporary logo, no generated QR.
C14_NoTempFilesLeft ==
    \A r \in Reqs :
        (req[r].pc = "done" /\ req[r].variant = "upload") =>
            \A f \in DOMAIN uploads : uploads[f].req # r

\* C16: every photo processed in a request that supplied a usable logo is
\* composed with that logo, and every photo processed in a request whose QR
\* was generated is composed with that QR, whatever happened to the photos
\* before it.
C16_SameOverlays ==
    \A r \in Reqs :
        \A k \in 1..Len(req[r].results) :
            /\ req[r].logo_in = "ok" => req[r].results[k].logo = Src(r, "logo", TRUE)
            /\ req[r].qr_in = "ok" => req[r].results[k].qr = Src(r, "qr", TRUE)

(***************************************************************************)
(* Properties of two concurrent upload requests (SpecConcurrent)           *)
(***************************************************************************)
\* C15: the photo composed into an output of a request is the one that
\* request uploaded, and the logo and QR pasted on it, if any, are the ones
\* that request supplied, never those of the other request.
C15_Isolation ==
    \A t \in Threads :
        \A k \in 1..Len(thr[t].results) :
            /\ thr[t].results[k].photo.req = t
            /\ thr[t].results[k].logo.req \in {0, t}
            /\ thr[t].results[k].qr.req \in {0, t}

====
